---- MODULE Spec2Model ----
(***************************************************************************)
(* A model of davidread/dcommute:                                          *)
(*   - BusTimetableAnalyzer.predict_route_times (bus_timetable_test.py),   *)
(*     the sequential projection of arrival times over a timetable;        *)
(*   - extract_stops_from_xml (extract_stops.py), the stop sequence of a   *)
(*     route direction in a TransXChange document.                         *)
(*                                                                         *)
(* Encodings.  Python lists are 0-based, TLA+ sequences 1-based: the       *)
(* anchor stops[0] is stops[1] here and the loop runs over 2..Len(stops).  *)
(* A cell of the result table and a timetable string are integer tuples:   *)
(* the clock text "H:M" is <<H, M>>, a number n is <<n>>, the text "-" is  *)
(* <<>> and the text "x" is <<0, 0, 0>>.  A quantity the code keeps in     *)
(* (float) minutes is kept in whole seconds, so that duration / 60 is      *)
(* exact; the rounded 'Extra Traffic (min)' cell is kept in tenths of a    *)
(* minute.                                                                 *)
(***************************************************************************)
EXTENDS Integers, Sequences, FiniteSets, TLC

VARIABLES stops, timetable, pc, i, last_used_stop, last_used_time, results,
          calls, ret

pvars == <<stops, timetable, pc, i, last_used_stop, last_used_time, results,
           calls, ret>>

(* extract_stops_from_xml: its arguments and document, and its locals.     *)
(* qualified_before is a history variable: whether a journey pattern read  *)
(* before journey_pattern matched the direction and had a declared stop.   *)
VARIABLES direction, stop_points, sections, xpc, stops_dict, service_no,
          pattern_no, journey_pattern, route_stops, qualified_before

xvars == <<direction, stop_points, sections, xpc, stops_dict, service_no,
           pattern_no, journey_pattern, route_stops, qualified_before>>

vars == <<pvars, xvars>>

(* ------------------------------ bounds -------------------------------- *)

MaxStops == 4

MaxServices == 2

MaxPatterns == 2

(* --------------------------- text and cells ---------------------------- *)

X == <<0, 0, 0>>

Dash == <<>>

Num(n) == <<n>>

SecPerMin == 60

None == -1

NoValue == <<>>

(* The timetable strings of the model: "x", three valid clock texts and    *)
(* the malformed "07:60".                                                  *)
TimeStrings == {X, <<7, 0>>, <<7, 30>>, <<8, 0>>, <<7, 60>>}

(* What gmaps.directions can do: raise (a malformed response raises inside *)
(* the same try), return an empty list, or return a route whose            *)
(* duration_in_traffic is a number of seconds: 30 min, 40 min 20 s, 60 min. *)
Durations == {1800, 2420, 3600}

Responses ==
    {[kind |-> "raise", value |-> 0], [kind |-> "empty", value |-> 0]}
    \cup {[kind |-> "route", value |-> d] : d \in Durations}

(* get_travel_time: minutes (here: seconds) or None.                       *)
GetTravelTime(resp) ==
    IF resp.kind = "route" THEN resp.value ELSE None

(* datetime.strptime(time_str, "%H:%M") accepts exactly the texts H:M with *)
(* 0 <= H <= 23 and 0 <= M <= 59, and raises ValueError on anything else.  *)
ParseOK(time_str) ==
    /\ Len(time_str) = 2
    /\ time_str[1] \in 0..23
    /\ time_str[2] \in 0..59

parse_time(time_str) == [hour |-> time_str[1], minute |-> time_str[2]]

(* A slip: the clock text read as a decimal number, 07:30 as 730.          *)
time_to_minutes_Decimal(time_obj) ==
    (time_obj.hour * 100 + time_obj.minute) * SecPerMin

time_to_minutes(time_obj) == (time_obj.hour * 60 + time_obj.minute) * SecPerMin

minutes_to_time_str(minutes) ==
    <<(minutes \div SecPerMin) \div 60, (minutes \div SecPerMin) % 60>>

Max(a, b) == IF a >= b THEN a ELSE b

(* round(x, 1) of a number of minutes given in seconds, in tenths of a     *)
(* minute: the nearest tenth, a tie going to the even tenth.  A tie is a   *)
(* delay of 3 seconds modulo 6, where the float's binary expansion decides *)
(* in Python; the durations of the model are multiples of 20 seconds and   *)
(* the schedule is in whole minutes, so no delay of the model is a tie.    *)
Round1(x) ==
    LET q == x \div 6
        r == x % 6
    IN  IF r < 3 THEN q
        ELSE IF r > 3 THEN q + 1
        ELSE IF q % 2 = 0 THEN q ELSE q + 1

(* ----------------------- predict_route_times --------------------------- *)

(* A slip: the scan runs forward and stops at the first scheduled entry.   *)
LastScheduledIndex_First(tt, k) ==
    LET js == {j \in 1..(k - 1) : tt[j] # X}
    IN  IF js = {} THEN 0 ELSE CHOOSE j \in js : \A l \in js : j <= l

(* The backward scan for the last scheduled stop: the nearest j < k with   *)
(* timetable[j] != "x", or 0 when there is none.                           *)
LastScheduledIndex(tt, k) ==
    LET js == {j \in 1..(k - 1) : tt[j] # X}
    IN  IF js = {} THEN 0 ELSE CHOOSE j \in js : \A l \in js : l <= j

AnchorRecord(st, tt) ==
    [Stop |-> st[1], Timetable |-> tt[1], Extra |-> Num(0), Predicted |-> tt[1]]

UnservedRecord(current_stop) ==
    [Stop |-> current_stop, Timetable |-> Dash, Extra |-> Dash, Predicted |-> Dash]

(* A slip: the bus does not wait for its scheduled time.                   *)
ActualArrival_NoWait(last_time, travel_time, scheduled_time) ==
    last_time + travel_time

ActualArrival(last_time, travel_time, scheduled_time) ==
    Max(last_time + travel_time, time_to_minutes(parse_time(scheduled_time)))

(* A slip: the extra delay is not floored at zero.                         *)
ExtraTraffic_NoFloor(tt, k, last_time, actual_arrival) ==
    LET j == LastScheduledIndex(tt, k)
    IN  IF j # 0
        THEN (actual_arrival - last_time)
             - (time_to_minutes(parse_time(tt[k]))
                - time_to_minutes(parse_time(tt[j])))
        ELSE 0

ExtraTraffic(tt, k, last_time, actual_arrival) ==
    LET j == LastScheduledIndex(tt, k)
    IN  IF j # 0
        THEN LET scheduled_travel ==
                     time_to_minutes(parse_time(tt[k]))
                     - time_to_minutes(parse_time(tt[j]))
                 actual_travel == actual_arrival - last_time
             IN  Max(0, actual_travel - scheduled_travel)
        ELSE 0

ServedRecord(current_stop, scheduled_time, extra_traffic, actual_arrival) ==
    [Stop |-> current_stop, Timetable |-> scheduled_time,
     Extra |-> Num(Round1(extra_traffic)),
     Predicted |-> minutes_to_time_str(actual_arrival)]

(* A slip: the text of the last scheduled entry is taken without parsing.  *)
BodyRaises_OwnTextOnly(tt, k) == ~ParseOK(tt[k])

(* Whether the body of the loop raises at entry k once its lookup has      *)
(* succeeded: parse_time of the entry's own text, then of the text of the  *)
(* last scheduled entry.                                                   *)
BodyRaises(tt, k) ==
    \/ ~ParseOK(tt[k])
    \/ LET j == LastScheduledIndex(tt, k) IN j # 0 /\ ~ParseOK(tt[j])

(* A slip: a failed lookup still moves the last used stop.                 *)
OnLookupFailure_Advances(s, current_stop) ==
    [s EXCEPT !.i = s.i + 1, !.last_used_stop = current_stop]

(* A slip: a failed lookup leaves a row of dashes.                         *)
OnLookupFailure_EmitsRow(s, current_stop) ==
    [s EXCEPT !.i = s.i + 1,
              !.results = Append(s.results, UnservedRecord(current_stop))]

(* Lines 146-148: the lookup gave None; the entry is skipped.               *)
OnLookupFailure(s, current_stop) ==
    [s EXCEPT !.i = s.i + 1]

(* A slip: the last used stop stays where it was.                          *)
OnServed_KeepsStop(s, tt, current_stop, travel_time) ==
    LET scheduled_time == tt[s.i]
        actual_arrival ==
            ActualArrival(s.last_used_time, travel_time, scheduled_time)
        extra_traffic ==
            ExtraTraffic(tt, s.i, s.last_used_time, actual_arrival)
    IN  [pc |-> "loop", i |-> s.i + 1,
         last_used_stop |-> s.last_used_stop,
         last_used_time |-> actual_arrival,
         results |-> Append(s.results,
             ServedRecord(current_stop, scheduled_time,
                          extra_traffic, actual_arrival))]

(* Lines 150-186: the lookup gave travel_time; the record is appended and  *)
(* the last used stop and time move to this entry.                         *)
OnServed(s, tt, current_stop, travel_time) ==
    LET scheduled_time == tt[s.i]
        actual_arrival ==
            ActualArrival(s.last_used_time, travel_time, scheduled_time)
        extra_traffic ==
            ExtraTraffic(tt, s.i, s.last_used_time, actual_arrival)
    IN  [pc |-> "loop", i |-> s.i + 1,
         last_used_stop |-> current_stop,
         last_used_time |-> actual_arrival,
         results |-> Append(s.results,
             ServedRecord(current_stop, scheduled_time,
                          extra_traffic, actual_arrival))]

(* A slip: an entry marked "x" becomes the last used stop.                 *)
OnUnserved_Advances(s, current_stop) ==
    [s EXCEPT !.i = s.i + 1,
              !.last_used_stop = current_stop,
              !.results = Append(s.results, UnservedRecord(current_stop))]

(* Lines 188-197: the entry is marked "x".                                 *)
OnUnserved(s, current_stop) ==
    [s EXCEPT !.i = s.i + 1,
              !.results = Append(s.results, UnservedRecord(current_stop))]

(* One pass of the loop body over entry s.i, as a function of the frame s  *)
(* = [pc, i, last_used_stop, last_used_time, results] and of the response  *)
(* of the directions service to the one call the pass may make.            *)
ProcessEntry(s, st, tt, resp) ==
    LET current_stop == st[s.i]
        scheduled_time == tt[s.i]
        travel_time == GetTravelTime(resp)
    IN  IF scheduled_time # X
        THEN IF travel_time = None
             THEN OnLookupFailure(s, current_stop)
             ELSE IF BodyRaises(tt, s.i)
             THEN [s EXCEPT !.pc = "raised"]
             ELSE OnServed(s, tt, current_stop, travel_time)
        ELSE OnUnserved(s, current_stop)

(* The statements before the loop: the anchor.                             *)
Enter(st, tt) ==
    IF ParseOK(tt[1])
    THEN [pc |-> "loop", i |-> 2, last_used_stop |-> st[1],
          last_used_time |-> time_to_minutes(parse_time(tt[1])),
          results |-> <<AnchorRecord(st, tt)>>]
    ELSE [pc |-> "raised", i |-> 1, last_used_stop |-> 0, last_used_time |-> 0,
          results |-> <<>>]

Frame == [pc |-> pc, i |-> i, last_used_stop |-> last_used_stop,
          last_used_time |-> last_used_time, results |-> results]

SetFrame(s) ==
    /\ pc' = s.pc
    /\ i' = s.i
    /\ last_used_stop' = s.last_used_stop
    /\ last_used_time' = s.last_used_time
    /\ results' = s.results

(* extract_stops_from_xml is not running.                                  *)
XIdle ==
    /\ direction = ""
    /\ stop_points = <<>>
    /\ sections = <<>>
    /\ xpc = "idle"
    /\ stops_dict = <<>>
    /\ service_no = 0
    /\ pattern_no = 0
    /\ journey_pattern = <<>>
    /\ route_stops = <<>>
    /\ qualified_before = FALSE

StopNames(n) == [k \in 1..n |-> k]

Init ==
    /\ \E n \in 1..MaxStops :
          /\ stops = StopNames(n)
          /\ timetable \in [1..n -> TimeStrings]
    /\ pc = "start"
    /\ i = 1
    /\ last_used_stop = 0
    /\ last_used_time = 0
    /\ results = <<>>
    /\ calls = <<>>
    /\ ret = NoValue
    /\ XIdle

(* Lines 118-130.                                                          *)
Start ==
    /\ pc = "start"
    /\ SetFrame(Enter(stops, timetable))
    /\ UNCHANGED <<stops, timetable, calls, ret, xvars>>

(* A pass over an entry marked "x": no call is made.                       *)
Unserved ==
    /\ pc = "loop"
    /\ i <= Len(stops)
    /\ timetable[i] = X
    /\ SetFrame(ProcessEntry(Frame, stops, timetable, [kind |-> "empty", value |-> 0]))
    /\ UNCHANGED <<stops, timetable, calls, ret, xvars>>

(* A pass over a served entry: one call of get_travel_time.                *)
Served ==
    /\ pc = "loop"
    /\ i <= Len(stops)
    /\ timetable[i] # X
    /\ \E resp \in Responses :
          /\ SetFrame(ProcessEntry(Frame, stops, timetable, resp))
          /\ calls' = Append(calls, [origin |-> last_used_stop,
                                     destination |-> stops[i],
                                     index |-> i,
                                     travel_time |-> GetTravelTime(resp)])
    /\ UNCHANGED <<stops, timetable, ret, xvars>>

(* Line 199.                                                               *)
Return ==
    /\ pc = "loop"
    /\ i > Len(stops)
    /\ pc' = "done"
    /\ ret' = results
    /\ UNCHANGED <<stops, timetable, i, last_used_stop, last_used_time, results, calls,
                   xvars>>

Next == Start \/ Unserved \/ Served \/ Return

Spec == Init /\ [][Next]_vars

(* ------------------------- predict_route_times: claims ------------------ *)

Range(f) == {f[k] : k \in DOMAIN f}

(* The scheduled time of entry k in seconds since midnight, read off the   *)
(* clock text itself.                                                      *)
Sched(tt, k) == (tt[k][1] * 60 + tt[k][2]) * 60

Malformed(time_str) == time_str # X /\ ~ParseOK(time_str)

(* The entries whose lookup gave None, and those whose lookup gave a time. *)
FailedIndexes == {c.index : c \in {d \in Range(calls) : d.travel_time = None}}

LookedUpIndexes == {c.index : c \in {d \in Range(calls) : d.travel_time # None}}

LastCall == calls[Len(calls)]

(* The pass that starts in this state and ends in the next one looked up   *)
(* entry i and got None / got a travel time and appended a record.         *)
FailedPass ==
    /\ Len(calls') = Len(calls) + 1
    /\ calls'[Len(calls')].travel_time = None

RecordedPass ==
    /\ Len(calls') = Len(calls) + 1
    /\ calls'[Len(calls')].travel_time # None
    /\ pc' = "loop"

UnservedPass == pc = "loop" /\ i <= Len(stops) /\ timetable[i] = X

(* C2: when the lookup for served entry i gives None, the pass appends no  *)
(* record, the run goes on to entry i + 1, and last_used_stop and          *)
(* last_used_time are what they were before the pass; the table returned   *)
(* has no row for such a stop.                                             *)
C2_FailedLookupSkips ==
    /\ [][FailedPass =>
            /\ results' = results
            /\ last_used_stop' = last_used_stop
            /\ last_used_time' = last_used_time
            /\ pc' = "loop"
            /\ i' = i + 1]_vars
    /\ [](pc = "done" =>
            \A k \in FailedIndexes : \A r \in Range(ret) : r.Stop # stops[k])

C2_Witness ==
    /\ pc = "done"
    /\ \E k \in FailedIndexes : \E l \in LookedUpIndexes : k < l

(* C3: every row of a served stop has an extra delay >= 0.                 *)
C3_ExtraNonNegative ==
    \A k \in DOMAIN results :
        results[k].Timetable # Dash => results[k].Extra[1] >= 0

(* A served entry was reached faster than scheduled, after a failed lookup. *)
C3_Witness ==
    /\ pc = "done"
    /\ FailedIndexes # {}
    /\ \E c \in Range(calls) :
          /\ c.travel_time # None
          /\ c.index > 2
          /\ c.travel_time < Sched(timetable, c.index)
                             - Sched(timetable, LastScheduledIndex(timetable, c.index))

(* C4: a pass that appends the row of a served entry sets last_used_time   *)
(* to the larger of last_used_time + travel time and the entry's scheduled *)
(* time, and the row's predicted arrival is that time of day, never before *)
(* the scheduled time.                                                     *)
C4_PredictedIsMax ==
    [][RecordedPass =>
        LET t == calls'[Len(calls')].travel_time
            sch == Sched(timetable, i)
            row == results'[Len(results')]
        IN  /\ Len(results') = Len(results) + 1
            /\ last_used_time' = IF last_used_time + t >= sch
                                 THEN last_used_time + t ELSE sch
            /\ last_used_time' >= sch
            /\ row.Predicted[1] * 60 + row.Predicted[2] = last_used_time' \div 60
            /\ (row.Predicted[1] * 60 + row.Predicted[2]) * 60 >= sch]_vars

(* Both branches of the max have been taken in one run.                    *)
C4_Witness ==
    /\ pc = "done"
    /\ \E c \in Range(calls) :
          /\ c.travel_time # None
          /\ \E r \in Range(ret) :
                /\ r.Stop = c.destination
                /\ (r.Predicted[1] * 60 + r.Predicted[2]) * 60 > Sched(timetable, c.index)
    /\ \E c \in Range(calls) :
          /\ c.travel_time # None
          /\ \E r \in Range(ret) :
                /\ r.Stop = c.destination
                /\ r.Predicted = timetable[c.index]

(* Every lookup of the run succeeded and gave exactly the scheduled leg.   *)
ExactLookups ==
    \A c \in Range(calls) :
        /\ c.travel_time # None
        /\ c.travel_time = Sched(timetable, c.index)
                           - Sched(timetable, LastScheduledIndex(timetable, c.index))

(* C5: when every lookup gives exactly the scheduled leg, every served row *)
(* has extra delay 0 and a predicted arrival equal to its scheduled time.  *)
C5_RoundTrip ==
    (pc = "done" /\ ExactLookups) =>
        \A r \in Range(ret) :
            r.Timetable # Dash => r.Extra = Num(0) /\ r.Predicted = r.Timetable

C5_Witness ==
    /\ pc = "done"
    /\ ExactLookups
    /\ Len(calls) >= 2
    /\ \E k \in DOMAIN timetable : timetable[k] = X

(* C6: a pass over an entry marked "x" appends the row (stop, "-", "-",    *)
(* "-"), makes no lookup and leaves last_used_stop and last_used_time.     *)
C6_UnservedFrame ==
    [][UnservedPass =>
        /\ results' = Append(results,
               [Stop |-> stops[i], Timetable |-> Dash, Extra |-> Dash,
                Predicted |-> Dash])
        /\ calls' = calls
        /\ last_used_stop' = last_used_stop
        /\ last_used_time' = last_used_time]_vars

(* An unserved entry lies between two served entries that got rows.        *)
C6_Witness ==
    /\ pc = "done"
    /\ \E k \in DOMAIN timetable :
          /\ k > 1
          /\ timetable[k] = X
          /\ \E c \in Range(calls) :
                c.index > k /\ c.origin < k /\ c.travel_time # None

Kept(k) == k \notin FailedIndexes

RECURSIVE KeptStops(_)
KeptStops(k) ==
    IF k > Len(stops) THEN <<>>
    ELSE IF Kept(k) THEN <<stops[k]>> \o KeptStops(k + 1)
    ELSE KeptStops(k + 1)

(* C7: the table returned lists the stops of the input in their order,     *)
(* without those whose lookup failed; its length is the number of entries  *)
(* minus the number of failed lookups.                                     *)
C7_OutputIsInputMinusFailed ==
    pc = "done" =>
        /\ [k \in DOMAIN ret |-> ret[k].Stop] = KeptStops(1)
        /\ Len(ret) = Len(stops) - Cardinality(FailedIndexes)
        /\ (FailedIndexes = {} => Len(ret) = Len(stops))

C7_Witness ==
    /\ pc = "done"
    /\ Len(stops) = MaxStops
    /\ Cardinality(FailedIndexes) = 1
    /\ \E k \in DOMAIN timetable : timetable[k] = X
    /\ LookedUpIndexes # {}

(* The entry whose parse raises, if any: the anchor when its text is not a *)
(* clock text, or an entry whose lookup succeeded and whose own text, or   *)
(* that of the nearest earlier entry not marked "x", is malformed.         *)
ParsesMalformed ==
    \/ ~ParseOK(timetable[1])
    \/ \E c \in Range(calls) :
          /\ c.travel_time # None
          /\ \/ Malformed(timetable[c.index])
             \/ Malformed(timetable[LastScheduledIndex(timetable, c.index)])

Finished == pc \in {"done", "raised"}

(* C8 as stated: a run over a timetable with a malformed text never        *)
(* returns a table.                                                        *)
C8_MalformedAlwaysRaises ==
    pc = "done" => \A k \in DOMAIN timetable : ~Malformed(timetable[k])

(* C8, amended: the run raises, and returns nothing, exactly when it       *)
(* parses a text that is not a clock text; a malformed text whose own      *)
(* lookup and the lookup of the next served entry both fail (or which has  *)
(* no next served entry) is never parsed and the run returns its table.    *)
C8_RaisesWhenParsed ==
    Finished =>
        /\ (pc = "raised") = ParsesMalformed
        /\ (pc = "raised" => ret = NoValue)

C8_Witness ==
    /\ pc = "raised"
    /\ ParseOK(timetable[1])
    /\ \E k \in FailedIndexes : Malformed(timetable[k])

(* The stop a lookup for entry k starts from: the nearest earlier served   *)
(* entry that got a row, the anchor when there is none.                    *)
OriginFor(k) ==
    LET js == {j \in 1..(k - 1) :
                  j = 1 \/ (timetable[j] # X /\ \E r \in Range(ret) : r.Stop = stops[j])}
    IN  stops[CHOOSE j \in js : \A l \in js : l <= j]

ServedAfterAnchor == {k \in 2..Len(stops) : timetable[k] # X}

(* C9: a run that returns has looked up each served entry after the anchor *)
(* once, in timetable order, and no entry marked "x"; each lookup goes     *)
(* from the nearest earlier served stop that got a row, or the anchor, to  *)
(* the entry's stop.                                                       *)
C9_LookupsInOrder ==
    pc = "done" =>
        /\ Len(calls) = Cardinality(ServedAfterAnchor)
        /\ {c.index : c \in Range(calls)} = ServedAfterAnchor
        /\ \A m \in 1..(Len(calls) - 1) : calls[m].index < calls[m + 1].index
        /\ \A m \in DOMAIN calls :
              /\ calls[m].destination = stops[calls[m].index]
              /\ calls[m].origin = OriginFor(calls[m].index)

(* [A served, B unserved, C served]: the one lookup is (A, C).             *)
C9_Witness ==
    /\ pc = "done"
    /\ Len(stops) = 3
    /\ timetable[2] = X
    /\ timetable[3] # X
    /\ [m \in DOMAIN calls |-> <<calls[m].origin, calls[m].destination>>]
           = <<(<<stops[1], stops[3]>>)>>

(* ------------------- C1: a failed stop as a removed stop ---------------- *)

Delete(f, k) == [m \in 1..(Len(f) - 1) |-> IF m < k THEN f[m] ELSE f[m + 1]]

RespOf(travel_time) ==
    IF travel_time = None THEN [kind |-> "empty", value |-> 0]
    ELSE [kind |-> "route", value |-> travel_time]

(* What the lookups of this run gave, by (origin, destination).            *)
Lookups ==
    [p \in {<<c.origin, c.destination>> : c \in Range(calls)} |->
        RespOf((CHOOSE c \in Range(calls) :
                    c.origin = p[1] /\ c.destination = p[2]).travel_time)]

(* predict_route_times as a function of the stops, the timetable and the   *)
(* lookups: Enter, then ProcessEntry over the entries in order.            *)
RECURSIVE RunFrom(_, _, _, _)
RunFrom(s, st, tt, lk) ==
    IF s.pc # "loop" THEN s
    ELSE IF s.i > Len(st) THEN [s EXCEPT !.pc = "done"]
    ELSE RunFrom(ProcessEntry(s, st, tt,
                     IF tt[s.i] = X THEN RespOf(None)
                     ELSE lk[<<s.last_used_stop, st[s.i]>>]),
                 st, tt, lk)

WithoutEntry(k) ==
    RunFrom(Enter(Delete(stops, k), Delete(timetable, k)),
            Delete(stops, k), Delete(timetable, k), Lookups)

(* C1: the table returned is the table of the run over the route without   *)
(* a stop whose lookup failed, the other lookups giving the same results.  *)
C1_FailedAsRemoved ==
    pc = "done" =>
        \A k \in FailedIndexes :
            WithoutEntry(k).pc = "done" /\ WithoutEntry(k).results = ret

(* The part of C1 the code keeps: the stops, the scheduled times and the   *)
(* predicted arrivals of the two tables agree whenever both runs return.   *)
C1_ArrivalsAsRemoved ==
    pc = "done" =>
        \A k \in FailedIndexes :
            WithoutEntry(k).pc = "done" =>
                [m \in DOMAIN ret |->
                    <<ret[m].Stop, ret[m].Timetable, ret[m].Predicted>>]
                = [m \in DOMAIN WithoutEntry(k).results |->
                    <<WithoutEntry(k).results[m].Stop,
                      WithoutEntry(k).results[m].Timetable,
                      WithoutEntry(k).results[m].Predicted>>]

(* ------------------------ extract_stops_from_xml ------------------------ *)
(* The document is read as the code reads it: the stop points and the      *)
(* journey pattern sections are known from the start (the code reaches     *)
(* them from the root), the services and their journey patterns are met    *)
(* one after the other in document order.  A text is a sequence of words   *)
(* and `token in text.lower()` holds when a word of the text, lowered, is  *)
(* the token.  The document is schema-valid: every AnnotatedStopPointRef   *)
(* has a StopPointRef and a CommonName, every Direction has a text.        *)

route_name == "X90"

NoRef == ""

NoPattern == [direction |-> [present |-> FALSE, text |-> <<>>], section_refs |-> <<>>]

LineChoices == {<<"X90">>, <<"400">>, <<"400", "X90">>}

DirectionChoices ==
    {[present |-> FALSE, text |-> <<>>]}
    \cup {[present |-> TRUE, text |-> t] :
            t \in {<<"inbound">>, <<"Outbound">>, <<"To", "Oxford">>, <<"clockwise">>}}

RefChoices == {<<>>, <<"js1">>, <<"js2", "js1">>, <<"js3">>, <<"js9">>}

Patterns == [direction : DirectionChoices, section_refs : RefChoices]

StopTables ==
    {<<[ref |-> "s1", name |-> "A"], [ref |-> "s2", name |-> "B"],
       [ref |-> "s3", name |-> "C"]>>,
     <<[ref |-> "s1", name |-> "A"], [ref |-> "s3", name |-> "C"],
       [ref |-> "s1", name |-> "A2"]>>}

SectionLibraries ==
    {<<[id |-> "js1", links |-> <<[from |-> "s1", to |-> "s2"],
                                  [from |-> "s2", to |-> "s3"]>>],
       [id |-> "js2", links |-> <<[from |-> "s3", to |-> "s1"]>>],
       [id |-> "js3", links |-> <<[from |-> "s4", to |-> "s4"]>>]>>,
     <<[id |-> "js1", links |-> <<[from |-> NoRef, to |-> "s3"]>>],
       [id |-> "js2", links |-> <<[from |-> "s2", to |-> "s4"]>>],
       [id |-> "js1", links |-> <<[from |-> "s3", to |-> "s1"]>>],
       [id |-> "js3", links |-> <<>>]>>}

Lower(w) ==
    CASE w = "Outbound" -> "outbound"
      [] w = "Oxford" -> "oxford"
      [] w = "To" -> "to"
      [] OTHER -> w

Contains(token, text) == \E k \in DOMAIN text : Lower(text[k]) = token

(* Lines 23-27: a later AnnotatedStopPointRef of a ref replaces the name.  *)
StopsDict(points) ==
    [r \in {points[k].ref : k \in DOMAIN points} |->
        LET ks == {k \in DOMAIN points : points[k].ref = r}
        IN  points[CHOOSE k \in ks : \A l \in ks : l <= k].name]

(* A slip: the direction is matched on the words inbound and outbound only. *)
DirectionMatch_NoCity(dir, direction_text) ==
    \/ dir = "inbound" /\ Contains("inbound", direction_text)
    \/ dir = "outbound" /\ Contains("outbound", direction_text)

(* Lines 49-59.                                                            *)
DirectionMatch(dir, direction_text) ==
    \/ /\ dir = "inbound"
       /\ (Contains("inbound", direction_text) \/ Contains("oxford", direction_text))
    \/ /\ dir = "outbound"
       /\ (Contains("outbound", direction_text) \/ Contains("london", direction_text))

(* A slip: a stop is appended each time it is met.                         *)
AddStop_NoDedup(stop_sequence, stop_id, dict) ==
    IF stop_id \in DOMAIN dict
    THEN Append(stop_sequence, [name |-> dict[stop_id], atco_code |-> stop_id])
    ELSE stop_sequence

(* Lines 85-95 and 99-109: a stop of a timing link.                        *)
AddStop(stop_sequence, stop_id, dict) ==
    IF stop_id \in DOMAIN dict
    THEN LET stop == [name |-> dict[stop_id], atco_code |-> stop_id]
         IN  IF \E k \in DOMAIN stop_sequence : stop_sequence[k] = stop
             THEN stop_sequence
             ELSE Append(stop_sequence, stop)
    ELSE stop_sequence

(* Lines 78-109: the timing links of a section, From then To.              *)
RECURSIVE AddLinks(_, _, _)
AddLinks(stop_sequence, links, dict) ==
    IF links = <<>> THEN stop_sequence
    ELSE AddLinks(AddStop(AddStop(stop_sequence, Head(links).from, dict),
                          Head(links).to, dict),
                  Tail(links), dict)

(* Lines 74-76: the sections of the document with the id, in its order.    *)
RECURSIVE AddSections(_, _, _, _)
AddSections(stop_sequence, secs, section_id, dict) ==
    IF secs = <<>> THEN stop_sequence
    ELSE AddSections(IF Head(secs).id = section_id
                     THEN AddLinks(stop_sequence, Head(secs).links, dict)
                     ELSE stop_sequence,
                     Tail(secs), section_id, dict)

(* Lines 65-109: the stop sequence of a journey pattern.                   *)
RECURSIVE AddRefs(_, _, _, _)
AddRefs(stop_sequence, refs, secs, dict) ==
    IF refs = <<>> THEN stop_sequence
    ELSE AddRefs(AddSections(stop_sequence, secs, Head(refs), dict),
                 Tail(refs), secs, dict)

StopSequence(jp, secs, dict) == AddRefs(<<>>, jp.section_refs, secs, dict)

(* predict_route_times is not running.                                     *)
PIdle ==
    /\ stops = <<>>
    /\ timetable = <<>>
    /\ pc = "idle"
    /\ i = 0
    /\ last_used_stop = 0
    /\ last_used_time = 0
    /\ results = <<>>
    /\ calls = <<>>
    /\ ret = NoValue

InitExtract ==
    /\ PIdle
    /\ direction \in {"inbound", "outbound"}
    /\ stop_points \in StopTables
    /\ sections \in SectionLibraries
    /\ xpc = "start"
    /\ stops_dict = <<>>
    /\ service_no = 0
    /\ pattern_no = 0
    /\ journey_pattern = NoPattern
    /\ route_stops = <<>>
    /\ qualified_before = FALSE

(* The journey pattern, by the words of the claim: it matches the          *)
(* direction and some stop of its timing links is declared.                *)
RefTokens(dir) ==
    IF dir = "inbound" THEN {"inbound", "oxford"}
    ELSE IF dir = "outbound" THEN {"outbound", "london"}
    ELSE {}

RefMatches(jp) ==
    /\ jp.direction.present
    /\ {Lower(jp.direction.text[k]) : k \in DOMAIN jp.direction.text}
           \cap RefTokens(direction) # {}

RECURSIVE FlatLinks(_)
FlatLinks(links) ==
    IF links = <<>> THEN <<>>
    ELSE <<Head(links).from, Head(links).to>> \o FlatLinks(Tail(links))

RECURSIVE FlatSections(_, _)
FlatSections(secs, section_id) ==
    IF secs = <<>> THEN <<>>
    ELSE (IF Head(secs).id = section_id THEN FlatLinks(Head(secs).links) ELSE <<>>)
         \o FlatSections(Tail(secs), section_id)

RECURSIVE FlatRefs(_)
FlatRefs(refs) ==
    IF refs = <<>> THEN <<>>
    ELSE FlatSections(sections, Head(refs)) \o FlatRefs(Tail(refs))

Declared(r) == \E k \in DOMAIN stop_points : stop_points[k].ref = r

RefQualifies(jp) ==
    /\ RefMatches(jp)
    /\ \E k \in DOMAIN FlatRefs(jp.section_refs) : Declared(FlatRefs(jp.section_refs)[k])

(* Lines 14-29.                                                            *)
XStart ==
    /\ xpc = "start"
    /\ stops_dict' = StopsDict(stop_points)
    /\ xpc' = "services"
    /\ UNCHANGED <<direction, stop_points, sections, service_no, pattern_no,
                   journey_pattern, route_stops, qualified_before, pvars>>

(* Lines 33-36: the next Service of the document; its journey patterns are *)
(* read when one of its LineName is the route.                             *)
NextService ==
    /\ xpc = "services"
    /\ service_no < MaxServices
    /\ \E lines \in LineChoices :
          xpc' = IF \E k \in DOMAIN lines : lines[k] = route_name
                 THEN "patterns" ELSE "services"
    /\ service_no' = service_no + 1
    /\ pattern_no' = 0
    /\ UNCHANGED <<direction, stop_points, sections, stops_dict, journey_pattern,
                   route_stops, qualified_before, pvars>>

(* Lines 40-114: the next JourneyPattern of the service.                   *)
ExaminePattern ==
    /\ xpc = "patterns"
    /\ pattern_no < MaxPatterns
    /\ \E jp \in Patterns :
          LET stop_sequence == StopSequence(jp, sections, stops_dict)
          IN  /\ journey_pattern' = jp
              /\ IF /\ jp.direction.present
                    /\ DirectionMatch(direction, jp.direction.text)
                    /\ stop_sequence # <<>>
                 THEN route_stops' = stop_sequence /\ xpc' = "returned"
                 ELSE UNCHANGED <<route_stops, xpc>>
    /\ pattern_no' = pattern_no + 1
    /\ qualified_before' = (qualified_before \/ RefQualifies(journey_pattern))
    /\ UNCHANGED <<direction, stop_points, sections, stops_dict, service_no, pvars>>

(* Lines 116-120: the service has no more journey patterns.                *)
EndService ==
    /\ xpc = "patterns"
    /\ xpc' = "services"
    /\ qualified_before' = (qualified_before \/ RefQualifies(journey_pattern))
    /\ journey_pattern' = NoPattern
    /\ UNCHANGED <<direction, stop_points, sections, stops_dict, service_no,
                   pattern_no, route_stops, pvars>>

(* Line 122: the document has no more services.                            *)
EndDocument ==
    /\ xpc = "services"
    /\ xpc' = "returned"
    /\ UNCHANGED <<direction, stop_points, sections, stops_dict, service_no,
                   pattern_no, journey_pattern, route_stops, qualified_before, pvars>>

NextExtract == XStart \/ NextService \/ ExaminePattern \/ EndService \/ EndDocument

SpecExtract == InitExtract /\ [][NextExtract]_vars

(* ------------------------ extract_stops_from_xml: claims ---------------- *)

FirstIndex(flat, r) ==
    CHOOSE k \in DOMAIN flat : flat[k] = r /\ \A l \in 1..(k - 1) : flat[l] # r

(* seq lists, once each and in the order they are first met in flat, the   *)
(* declared stops of flat, each with a name the stop-point table gives it. *)
FirstSeenDeclared(seq, flat) ==
    /\ \A a, b \in DOMAIN seq : a # b => seq[a] # seq[b]
    /\ {seq[k].atco_code : k \in DOMAIN seq}
           = {flat[k] : k \in {l \in DOMAIN flat : Declared(flat[l])}}
    /\ \A a, b \in DOMAIN seq :
          a < b => FirstIndex(flat, seq[a].atco_code) < FirstIndex(flat, seq[b].atco_code)
    /\ \A k \in DOMAIN seq :
          \E m \in DOMAIN stop_points :
              stop_points[m] = [ref |-> seq[k].atco_code, name |-> seq[k].name]

(* C10: what is returned is the stop sequence of the first journey pattern *)
(* of the route that matches the direction and has a declared stop: its    *)
(* declared From and To stops, once each, in first-seen order; and it is   *)
(* empty when no journey pattern read matches and has one.                 *)
C10_FirstMatchingPattern ==
    xpc = "returned" =>
        /\ ~qualified_before
        /\ IF RefQualifies(journey_pattern)
           THEN FirstSeenDeclared(route_stops, FlatRefs(journey_pattern.section_refs))
           ELSE route_stops = <<>>

(* A later pattern of the route is returned; its links repeat a stop and   *)
(* name an undeclared one.                                                 *)
C10_Witness ==
    /\ xpc = "returned"
    /\ pattern_no = 2
    /\ Len(route_stops) >= 2
    /\ Len(FlatRefs(journey_pattern.section_refs)) > Len(route_stops) + 1
    /\ \E k \in DOMAIN FlatRefs(journey_pattern.section_refs) :
          ~Declared(FlatRefs(journey_pattern.section_refs)[k])

(* ------------------- C11: extra delay and lateness ---------------------- *)

(* No lookup of the calls cs failed / each gave a whole number of minutes. *)
NoneFailed(cs) == \A c \in Range(cs) : c.travel_time # None

WholeMinutes(cs) == \A c \in Range(cs) : c.travel_time % 60 = 0

IndexOfStop(name) == CHOOSE k \in DOMAIN stops : stops[k] = name

ClockSeconds(cell) == (cell[1] * 60 + cell[2]) * 60

(* The lateness of a served row, in seconds: predicted arrival minus       *)
(* scheduled time.                                                         *)
RowLateness(row) == ClockSeconds(row.Predicted) - ClockSeconds(row.Timetable)

(* The extra delays reported in rows 1..k of the table, in seconds.        *)
RECURSIVE ExtraSum(_, _)
ExtraSum(table, k) ==
    IF k = 0 THEN 0
    ELSE ExtraSum(table, k - 1)
         + (IF table[k].Timetable # Dash THEN table[k].Extra[1] * 6 ELSE 0)

(* C11: while no lookup has failed, the pass that appends the row of a     *)
(* served stop reports the extra delay max(0, lateness at this stop minus  *)
(* lateness at the previous served stop), rounded to a tenth of a minute   *)
(* and exact when the travel times are whole minutes; and then the         *)
(* lateness of every served row is at most the sum of the extra delays     *)
(* reported up to and including that row.                                  *)
C11_ExtraIsLatenessGain ==
    /\ [][(RecordedPass /\ NoneFailed(calls')) =>
            LET late_before ==
                    last_used_time - Sched(timetable, IndexOfStop(last_used_stop))
                late_now == last_used_time' - Sched(timetable, i)
                gain == IF late_now - late_before >= 0
                        THEN late_now - late_before ELSE 0
                row == results'[Len(results')]
            IN  /\ row.Extra = Num(Round1(gain))
                /\ (WholeMinutes(calls') => row.Extra[1] * 6 = gain)]_vars
    /\ []((NoneFailed(calls) /\ WholeMinutes(calls)) =>
            \A k \in DOMAIN results :
                results[k].Timetable # Dash =>
                    RowLateness(results[k]) <= ExtraSum(results, k))

(* A run of whole-minute lookups without failure in which a stop gained    *)
(* lateness and a later stop lost some, so that the bound is strict.       *)
C11_Witness ==
    /\ pc = "done"
    /\ Len(calls) >= 2
    /\ NoneFailed(calls)
    /\ WholeMinutes(calls)
    /\ \E k \in DOMAIN ret :
          /\ ret[k].Timetable # Dash
          /\ RowLateness(ret[k]) > 0
          /\ RowLateness(ret[k]) < ExtraSum(ret, k)

====
